---- MODULE Spec2Model ----
(***************************************************************************)
(* Model of nn_dataflow/LoopBlockingScheme.py: one LoopBlockingScheme      *)
(* object, its constructor (run step by step), its query methods and its   *)
(* index generator.                                                        *)
(*                                                                         *)
(* Conventions.                                                            *)
(*  - Python tuples and lists are functions with domain 0..n-1, so that    *)
(*    the enum values index them exactly as in the source.                 *)
(*  - `self` is a record holding the attributes assigned so far.           *)
(*  - Floats are records: nan, inf, or [isnan |-> FALSE, num |-> n] where  *)
(*    n is the numerator of the value over the fixed denominator OccDen    *)
(*    (partition occupation is a fraction k/OccDen, 1 <= k <= OccDen).     *)
(***************************************************************************)
EXTENDS Integers, Sequences, FiniteSets, TLC

VARIABLES
    pc,          \* position of the caller: "new", constructor steps, "ready", "raised"
    self,        \* the object's attributes
    desc,        \* nested_loop_desc passed to the constructor
    resource,    \* resource passed to the constructor
    options,     \* options passed to the constructor
    ret,         \* outcome of the last call: returned value or raised exception
    calc_count   \* number of times _calc_stats has run

vars == <<pc, self, desc, resource, options, ret, calc_count>>

(***************************************************************************)
(* Bounds of the model.                                                    *)
(***************************************************************************)
MaxTile == 2        \* largest blocking factor
MaxIters == 4       \* largest tip * top * tbp in the life-cycle specification
GenMaxIters == 16   \* largest tip * top * tbp in the generator specification
MaxLoopCnt == 2     \* largest required loop count
MaxCap == 4         \* largest buffer capacity
OccDen == 2         \* denominator of the partition occupation fractions

(***************************************************************************)
(* Enums.                                                                  *)
(***************************************************************************)
BL == [GBUF |-> 0, REGF |-> 1, NUM |-> 2]
de == [FIL |-> 0, IFM |-> 1, OFM |-> 2, NUM |-> 3]
le == [IFM |-> 0, OFM |-> 1, BAT |-> 2, NUM |-> 3]
me == [DRAM |-> 0, GBUF |-> 1, ITCN |-> 2, REGF |-> 3, NUM |-> 4]

(***************************************************************************)
(* Python helpers.                                                         *)
(***************************************************************************)
\* tuple(x) of a TLA+ sequence: the 0-based tuple.
tuple(x) == [i \in 0 .. Len(x) - 1 |-> x[i + 1]]

len(t) == Cardinality(DOMAIN t)

\* Util.prod(t[lo:hi]), with Python's clipping of the slice bounds.
RECURSIVE prod_slice(_, _, _)
prod_slice(t, lo, hi) ==
    IF lo >= hi \/ lo >= len(t) THEN 1
    ELSE t[lo] * prod_slice(t, lo + 1, hi)

prod(t) == prod_slice(t, 0, len(t))

RECURSIVE sum_upto(_, _)
sum_upto(f, n) == IF n = 0 THEN 0 ELSE f[n - 1] + sum_upto(f, n - 1)

\* sum(f) of a 0-based list of integers.
sum(f) == sum_upto(f, len(f))

nan == [isnan |-> TRUE]
inf == [isinf |-> TRUE]
float(n) == [isnan |-> FALSE, num |-> n]
None == [none |-> TRUE]

(***************************************************************************)
(* data_size, _set_unit_cnt, _innermost_nontrivial_loop, _set_fetch.       *)
(***************************************************************************)
data_size_dce(s, blvl, dce) ==
    LET size == s.unit_cnt[blvl][dce] * s.unit_size[blvl][dce]
    IN  IF blvl = BL.GBUF
        THEN size * (IF s.stored_in_gbuf[dce] THEN 1 ELSE 0)
        ELSE size

data_size(s, blvl) ==
    sum([dce \in 0 .. de.NUM - 1 |-> data_size_dce(s, blvl, dce)])

_set_unit_cnt(s) ==
    [bl \in 0 .. BL.NUM - 1 |->
        LET blp1 == bl + 1
            pblti == prod_slice(s.ti, blp1, len(s.ti))
            pblto == prod_slice(s.to, blp1, len(s.to))
            pbltb == prod_slice(s.tb, blp1, len(s.tb))
        IN  [dce \in 0 .. de.NUM - 1 |->
                CASE dce = de.FIL -> pblti * pblto
                  [] dce = de.IFM -> pblti * pbltb
                  [] dce = de.OFM -> pblto * pbltb]]

\* Python's order on the tuples (trivial, order value, loop): False < True,
\* then the order value, then the loop enum.
tuple_lt(a, b) ==
    \/ a[0] < b[0]
    \/ a[0] = b[0] /\ a[1] < b[1]
    \/ a[0] = b[0] /\ a[1] = b[1] /\ a[2] < b[2]

\* Faulty variant of _innermost_nontrivial_loop: the largest order value is taken.
_innermost_nontrivial_loop_Outermost(s, bl_lvl) ==
    LET order == s.orders[bl_lvl]
        triv(t) == IF t[bl_lvl] = 1 THEN 1 ELSE 0
        tup(t, lpe) == [i \in 0 .. 2 |->
                          CASE i = 0 -> triv(t) [] i = 1 -> le.NUM - order[lpe] [] i = 2 -> lpe]
        cand == { tup(s.ti, le.IFM), tup(s.to, le.OFM), tup(s.tb, le.BAT) }
        best == CHOOSE c \in cand : \A d \in cand : d = c \/ tuple_lt(c, d)
    IN  IF best[0] = 1 THEN None ELSE [none |-> FALSE, lp |-> best[2]]

\* min() over the three loop tuples and the sentinel (False, inf, None). The
\* sentinel is smaller than every trivial loop's tuple (False < True) and
\* larger than every non-trivial loop's tuple (order value < inf). The result
\* is the loop enum, or None when every loop is trivial.
_innermost_nontrivial_loop(s, bl_lvl) ==
    LET order == s.orders[bl_lvl]
        triv(t) == IF t[bl_lvl] = 1 THEN 1 ELSE 0
        tup(t, lpe) == [i \in 0 .. 2 |->
                          CASE i = 0 -> triv(t) [] i = 1 -> order[lpe] [] i = 2 -> lpe]
        cand == { tup(s.ti, le.IFM), tup(s.to, le.OFM), tup(s.tb, le.BAT) }
        best == CHOOSE c \in cand : \A d \in cand : d = c \/ tuple_lt(c, d)
    IN  IF best[0] = 1 THEN None ELSE [none |-> FALSE, lp |-> best[2]]

is_loop(nt, lpe) == ~nt.none /\ nt.lp = lpe

RECURSIVE fetch_upto(_, _)
fetch_upto(s, n) ==
    IF n = 0 THEN <<>>
    ELSE LET bl == n - 1
             outer == fetch_upto(s, n - 1)
             innermost_nt_lp == _innermost_nontrivial_loop(s, bl)
             start(lpe) == bl + (IF is_loop(innermost_nt_lp, lpe) THEN 0 ELSE 1)
             fe == [dce \in 0 .. de.NUM - 1 |->
                     CASE dce = de.FIL ->
                            IF s.ti[bl] * s.to[bl] = 1
                            THEN (IF bl > 0 THEN outer[bl - 1][de.FIL] ELSE 1)
                            ELSE prod_slice(s.tb, 0, start(le.BAT))
                       [] dce = de.IFM ->
                            IF s.ti[bl] * s.tb[bl] = 1
                            THEN (IF bl > 0 THEN outer[bl - 1][de.IFM] ELSE 1)
                            ELSE prod_slice(s.to, 0, start(le.OFM))
                       [] dce = de.OFM ->
                            IF s.to[bl] * s.tb[bl] = 1
                            THEN (IF bl > 0 THEN outer[bl - 1][de.OFM] ELSE 1)
                            ELSE 2 * prod_slice(s.ti, 0, start(le.IFM)) - 1]
         IN  outer @@ (bl :> fe)

\* Faulty variant of _set_fetch: the output feature maps are counted like the others.
_set_fetch_PlainOfm(s) ==
    LET f == fetch_upto(s, BL.NUM)
    IN  [bl \in DOMAIN f |->
            [dce \in 0 .. de.NUM - 1 |->
                IF dce = de.OFM THEN (f[bl][de.OFM] + 1) \div 2 ELSE f[bl][dce]]]

\* Faulty variant of _set_fetch: a level that does not change a category's
\* data restarts at 1 instead of taking the outer level's fetch count.
_set_fetch_NoInherit(s) ==
    LET f == fetch_upto(s, BL.NUM)
        trivial(bl, dce) ==
            CASE dce = de.FIL -> s.ti[bl] * s.to[bl] = 1
              [] dce = de.IFM -> s.ti[bl] * s.tb[bl] = 1
              [] dce = de.OFM -> s.to[bl] * s.tb[bl] = 1
    IN  [bl \in DOMAIN f |->
            [dce \in 0 .. de.NUM - 1 |->
                IF trivial(bl, dce) THEN 1 ELSE f[bl][dce]]]

_set_fetch(s) == fetch_upto(s, BL.NUM)

(***************************************************************************)
(* Inputs.                                                                 *)
(***************************************************************************)
Factors == 1 .. MaxTile

\* Well-formed blocking factors of one loop, and two of a wrong length.
Tilings == { <<a, b, c>> : a \in Factors, b \in Factors, c \in Factors }
BadTilings == { <<1, 1>>, <<1, 1, 1, 1>> }

\* The 3-permutations of (0, 1, 2), and a tuple that is not one.
Perms3 ==
    { o \in { <<a, b, c>> : a \in 0 .. 2, b \in 0 .. 2, c \in 0 .. 2 } :
        { o[1], o[2], o[3] } = { 0, 1, 2 } }
BadOrders == { <<0, 0, 0>> }

\* The pairs (order of GBUF, order of REGF): every pair of permutations, and
\* the pairs where one or both are not a permutation.
OrderPairs == Perms3 \X Perms3
BadOrderPairs ==
    UNION { { <<b, b>>, <<b, <<0, 1, 2>>>>, <<<<0, 1, 2>>, b>> } : b \in BadOrders }

\* `orders` as the caller passes it: indexed by MemHierEnum, only the GBUF and
\* REGF entries are set.
OrdersArg(ogbuf, oregf) ==
    [m \in 0 .. me.NUM - 1 |->
        CASE m = me.GBUF -> ogbuf
          [] m = me.REGF -> oregf
          [] OTHER -> <<>>]

NestedLoopDescs ==
    { [loopcnt_ifm |-> n, loopcnt_ofm |-> n, loopcnt_bat |-> n,
       usize_gbuf |-> [dce \in 0 .. de.NUM - 1 |-> 1],
       usize_regf |-> [dce \in 0 .. de.NUM - 1 |-> 1],
       unit_ops |-> 2,
       unit_time |-> 3,
       unit_access |-> [m \in 0 .. me.NUM - 1 |-> [dce \in 0 .. de.NUM - 1 |-> m + dce + 1]]]
      : n \in 1 .. MaxLoopCnt }

\* A register file that fits at most one non-trivial innermost blocking factor
\* (data sizes 3 and 5 of 3, 5, 8), and a global buffer that fits some of the
\* resident data (sizes 0 to 2 of 0 to 6).
Resources ==
    { [size_regf |-> MaxCap + 1, size_gbuf |-> MaxCap \div 2] }

\* For the generator: a register file that fits at most one non-trivial
\* innermost blocking factor, and a global buffer that fits every scheme.
GenResources ==
    { [size_regf |-> MaxCap + 1, size_gbuf |-> de.NUM * GenMaxIters] }

Options ==
    { [sw_gbuf_bypass |-> [dce \in 0 .. de.NUM - 1 |->
                              CASE dce = de.FIL -> f [] dce = de.IFM -> i [] dce = de.OFM -> o]]
      : f \in BOOLEAN, i \in BOOLEAN, o \in BOOLEAN }

GenOptions == { [sw_gbuf_bypass |-> [dce \in 0 .. de.NUM - 1 |-> TRUE]] }

Costs ==
    { [mac_op |-> 1, mem_hier |-> [m \in 0 .. me.NUM - 1 |-> me.NUM - m], unit_static |-> 1],
      [mac_op |-> 2, mem_hier |-> [m \in 0 .. me.NUM - 1 |-> 1], unit_static |-> 0] }

PartOccs == 1 .. OccDen

(***************************************************************************)
(* The outcome of a call.                                                  *)
(***************************************************************************)
Returned(op, arg, v) == [op |-> op, arg |-> arg, kind |-> "return", val |-> v]
Raised(op, arg, e) == [op |-> op, arg |-> arg, kind |-> "raise", val |-> [exc |-> e]]
NoCall == [op |-> "", arg |-> None, kind |-> "", val |-> None]
NoObject == [cls |-> "none"]

(***************************************************************************)
(* __init__, in five steps.                                                *)
(***************************************************************************)
\* Lines 80-90: the attributes set before the assertions.
InitArgs(tifm, tofm, tbat, orders) ==
    LET ti == tuple(tifm)
        to == tuple(tofm)
        tb == tuple(tbat)
    IN  [cls |-> "LoopBlockingScheme",
         ti |-> ti, to |-> to, tb |-> tb,
         orders |-> [bl \in 0 .. BL.NUM - 1 |->
                       IF bl = BL.GBUF THEN tuple(orders[me.GBUF])
                       ELSE tuple(orders[me.REGF])],
         tip |-> prod(ti), top |-> prod(to), tbp |-> prod(tb)]

\* Lines 93-102: the assertions on the lengths and the products.
ArgsOK(s, nld) ==
    /\ len(s.ti) = BL.NUM + 1
    /\ len(s.to) = BL.NUM + 1
    /\ len(s.tb) = BL.NUM + 1
    /\ s.tip >= nld.loopcnt_ifm
    /\ s.top >= nld.loopcnt_ofm
    /\ s.tbp >= nld.loopcnt_bat

\* Lines 104-114: unit sizes, unit counts and the conservative stored_in_gbuf.
InitBuffers(s, nld, opts) ==
    LET s1 == s @@ [unit_size |-> [bl \in 0 .. BL.NUM - 1 |->
                                     IF bl = BL.GBUF THEN nld.usize_gbuf
                                     ELSE nld.usize_regf]]
        s2 == s1 @@ [unit_cnt |-> _set_unit_cnt(s1)]
    IN  s2 @@ [stored_in_gbuf |-> [dce \in 0 .. de.NUM - 1 |->
                                     ~opts.sw_gbuf_bypass[dce]]]

\* Faulty variant of SizeOK: the global buffer's size is not compared.
SizeOK_RegfOnly(s, res) ==
    ~ (data_size(s, BL.REGF) > res.size_regf)

\* Lines 121-122 and 144-145: whether the data fit the buffers.
SizeOK(s, res) ==
    ~ (\/ data_size(s, BL.REGF) > res.size_regf
       \/ data_size(s, BL.GBUF) > res.size_gbuf)

\* Faulty variant of ResolveBypass: the fetch counts are compared with <= .
ResolveBypass_OrEqual(s) ==
    [dce \in 0 .. de.NUM - 1 |->
        IF s.stored_in_gbuf[dce] THEN TRUE
        ELSE s.fetch[BL.GBUF][dce] <= s.fetch[BL.REGF][dce]]

\* Lines 134-141: store in gbuf the bypassed categories that have reuse.
ResolveBypass(s) ==
    [dce \in 0 .. de.NUM - 1 |->
        IF s.stored_in_gbuf[dce] THEN TRUE
        ELSE s.fetch[BL.GBUF][dce] < s.fetch[BL.REGF][dce]]

\* Lines 150-162: unit stats, occupation and the lazily evaluated stats.
InitStats(s, nld) ==
    s @@ [unit_ops |-> nld.unit_ops,
          unit_time |-> nld.unit_time,
          unit_access |-> nld.unit_access,
          part_occ |-> float(OccDen),
          finalized_stats |-> FALSE,
          ops |-> nan,
          time |-> nan,
          access |-> [m \in 0 .. me.NUM - 1 |-> [dce \in 0 .. de.NUM - 1 |-> nan]]]

CtorBegin(tifm, tofm, tbat, orders, nld, res, opts) ==
    /\ pc = "new"
    /\ desc' = nld
    /\ resource' = res
    /\ options' = opts
    /\ LET s == InitArgs(tifm, tofm, tbat, orders)
       IN  IF ArgsOK(s, nld)
           THEN /\ self' = InitBuffers(s, nld, opts)
                /\ pc' = "ctor_check"
                /\ ret' = ret
           ELSE /\ self' = NoObject
                /\ pc' = "raised"
                /\ ret' = Raised("__init__", None, "AssertionError")
    /\ UNCHANGED calc_count

CtorCheck ==
    /\ pc = "ctor_check"
    /\ IF SizeOK(self, resource)
       THEN /\ self' = self @@ [valid |-> TRUE]
            /\ pc' = "ctor_fetch"
            /\ ret' = ret
       ELSE /\ self' = self @@ [valid |-> FALSE]
            /\ pc' = "ready"
            /\ ret' = Returned("__init__", None, None)
    /\ UNCHANGED <<desc, resource, options, calc_count>>

CtorFetch ==
    /\ pc = "ctor_fetch"
    /\ self' = self @@ [fetch |-> _set_fetch(self)]
    /\ pc' = "ctor_bypass"
    /\ UNCHANGED <<desc, resource, options, ret, calc_count>>

CtorBypass ==
    /\ pc = "ctor_bypass"
    /\ self' = [self EXCEPT !.stored_in_gbuf = ResolveBypass(self)]
    /\ pc' = "ctor_recheck"
    /\ UNCHANGED <<desc, resource, options, ret, calc_count>>

CtorRecheck ==
    /\ pc = "ctor_recheck"
    /\ IF SizeOK(self, resource)
       THEN self' = InitStats(self, desc)
       ELSE self' = [self EXCEPT !.valid = FALSE]
    /\ pc' = "ready"
    /\ ret' = Returned("__init__", None, None)
    /\ UNCHANGED <<desc, resource, options, calc_count>>

(***************************************************************************)
(* _calc_stats and the queries.                                            *)
(***************************************************************************)
_calc_stats(s) ==
    LET total_units == [dce \in 0 .. de.NUM - 1 |->
                          CASE dce = de.FIL -> s.tip * s.top
                            [] dce = de.IFM -> s.tip * s.tbp
                            [] dce = de.OFM -> s.top * s.tbp]
        lcnt == s.tip * s.top * s.tbp
        rw == [dce \in 0 .. de.NUM - 1 |-> IF dce = de.OFM THEN 2 ELSE 1]
        access ==
            [m \in 0 .. me.NUM - 1 |-> [dce \in 0 .. de.NUM - 1 |->
                CASE m = me.REGF ->
                       float(s.unit_access[me.REGF][dce] * lcnt * rw[dce] * s.part_occ.num)
                  [] m = me.ITCN ->
                       float(s.unit_access[me.ITCN][dce] * total_units[dce]
                             * s.fetch[BL.REGF][dce] * OccDen)
                  [] m = me.GBUF ->
                       float(s.unit_access[me.GBUF][dce] * total_units[dce]
                             * s.fetch[BL.REGF][dce]
                             * (IF s.stored_in_gbuf[dce] THEN 1 ELSE 0) * OccDen)
                  [] m = me.DRAM ->
                       float(s.unit_access[me.DRAM][dce] * total_units[dce]
                             * s.fetch[BL.GBUF][dce] * OccDen)]]
    IN  [s EXCEPT !.ops = float(s.unit_ops * lcnt * s.part_occ.num),
                  !.time = float(s.unit_time * lcnt * OccDen),
                  !.access = access,
                  !.finalized_stats = TRUE]

\* Faulty variant of ReadStats: the stats are computed on every call.
ReadStats_Always ==
    /\ self' = _calc_stats(self)
    /\ calc_count' = calc_count + 1

\* `if not self.finalized_stats: self._calc_stats()`
ReadStats ==
    IF self.finalized_stats
    THEN UNCHANGED <<self, calc_count>>
    ELSE /\ self' = _calc_stats(self)
         /\ calc_count' = calc_count + 1

is_valid(s) == s.valid

\* Faulty variant of SetPartitionOccupation: the validity check is missing, so that an
\* invalid record reads the attribute finalized_stats, which it does not have.
SetPartitionOccupation_NoValidCheck(part_occ) ==
    /\ pc = "ready"
    /\ IF ~is_valid(self)
       THEN /\ ret' = Raised("set_partition_occupation", float(part_occ), "AttributeError")
            /\ self' = self
       ELSE IF self.finalized_stats
       THEN /\ ret' = Raised("set_partition_occupation", float(part_occ), "AssertionError")
            /\ self' = self
       ELSE /\ ret' = Returned("set_partition_occupation", float(part_occ), None)
            /\ self' = [self EXCEPT !.part_occ = float(part_occ)]
    /\ UNCHANGED <<pc, desc, resource, options, calc_count>>

\* Faulty variant of SetPartitionOccupation: the assertion on finalized_stats is missing.
SetPartitionOccupation_NoAssert(part_occ) ==
    /\ pc = "ready"
    /\ IF ~is_valid(self)
       THEN /\ ret' = Returned("set_partition_occupation", float(part_occ), None)
            /\ self' = self
       ELSE /\ ret' = Returned("set_partition_occupation", float(part_occ), None)
            /\ self' = [self EXCEPT !.part_occ = float(part_occ)]
    /\ UNCHANGED <<pc, desc, resource, options, calc_count>>

SetPartitionOccupation(part_occ) ==
    /\ pc = "ready"
    /\ IF ~is_valid(self)
       THEN /\ ret' = Returned("set_partition_occupation", float(part_occ), None)
            /\ self' = self
       ELSE IF self.finalized_stats
       THEN /\ ret' = Raised("set_partition_occupation", float(part_occ), "AssertionError")
            /\ self' = self
       ELSE /\ ret' = Returned("set_partition_occupation", float(part_occ), None)
            /\ self' = [self EXCEPT !.part_occ = float(part_occ)]
    /\ UNCHANGED <<pc, desc, resource, options, calc_count>>

GetAccess ==
    /\ pc = "ready"
    /\ IF ~is_valid(self)
       THEN /\ ret' = Returned("get_access", None, None)
            /\ UNCHANGED <<self, calc_count>>
       ELSE /\ ReadStats
            /\ ret' = Returned("get_access", None, self'.access)
    /\ UNCHANGED <<pc, desc, resource, options>>

GetTopLevelFetch ==
    /\ pc = "ready"
    /\ IF ~is_valid(self)
       THEN /\ ret' = Returned("get_top_level_fetch", None, None)
            /\ UNCHANGED <<self, calc_count>>
       ELSE /\ ReadStats
            /\ ret' = Returned("get_top_level_fetch", None, self'.fetch[BL.GBUF])
    /\ UNCHANGED <<pc, desc, resource, options>>

\* Lines 227-236 of get_cost.
total_cost(s, cost) ==
    LET access_total == [m \in 0 .. me.NUM - 1 |->
                           sum([dce \in 0 .. de.NUM - 1 |-> s.access[m][dce].num])]
    IN  float(s.ops.num * cost.mac_op
              + sum([m \in 0 .. me.NUM - 1 |-> cost.mem_hier[m] * access_total[m]])
              + s.time.num * cost.unit_static)

GetCost(cost) ==
    /\ pc = "ready"
    /\ IF ~is_valid(self)
       THEN /\ ret' = Returned("get_cost", cost, inf)
            /\ UNCHANGED <<self, calc_count>>
       ELSE /\ ReadStats
            /\ ret' = Returned("get_cost", cost, total_cost(self', cost))
    /\ UNCHANGED <<pc, desc, resource, options>>

\* Lines 248-262 of get_scheme_dict.
scheme_dict(s) ==
    [ops |-> s.ops,
     time |-> s.time,
     access |-> s.access,
     fetch |-> s.fetch,
     size |-> [bl \in 0 .. BL.NUM - 1 |->
                 [dce \in 0 .. de.NUM - 1 |-> data_size_dce(s, bl, dce)]],
     unit_size |-> s.unit_size,
     unit_cnt |-> s.unit_cnt,
     part_occ |-> s.part_occ,
     ti |-> s.ti,
     to |-> s.to,
     tb |-> s.tb,
     orders |-> s.orders]

GetSchemeDict ==
    /\ pc = "ready"
    /\ IF ~is_valid(self)
       THEN /\ ret' = Returned("get_scheme_dict", None, None)
            /\ UNCHANGED <<self, calc_count>>
       ELSE /\ ReadStats
            /\ ret' = Returned("get_scheme_dict", None, scheme_dict(self'))
    /\ UNCHANGED <<pc, desc, resource, options>>

(***************************************************************************)
(* gen_index.  A generator's yields are a TLA+ sequence, in yield order.   *)
(***************************************************************************)
\* The list `gens`, from outer to inner: gens[rev_order[lpe]] = xrange(t_x[lpe])
\* for lpe = 0, 1, 2 in turn, so a later loop overwrites an earlier one and a
\* position no loop maps to stays None.  An xrange is given by its length.
gens_of(t_x, order_x) ==
    LET rev_order == [lpe \in 0 .. le.NUM - 1 |-> le.NUM - 1 - order_x[lpe]]
    IN  [p \in 0 .. le.NUM - 1 |->
            LET at == { lpe \in 0 .. le.NUM - 1 : rev_order[lpe] = p }
            IN  IF at = {} THEN None
                ELSE [none |-> FALSE,
                      n |-> t_x[CHOOSE lpe \in at : \A x \in at : x <= lpe]]]

\* The k-th tuple (k from 0) of itertools.product over three pools of the
\* lengths n: the last position advances fastest.  (A TLA+ tuple, from 1.)
product_at(n, k) ==
    << k \div (n[2] * n[3]), (k \div n[3]) % n[2], k % n[3] >>

\* A pool of itertools.product: tuple(iterable), the iterable run to its end.
pool(yields) == yields \o <<>>

\* The yields of _gen_index_single_level, or TypeError when an entry of gens
\* is None (itertools.product of a non-iterable).
_gen_index_single_level(t_x, order_x) ==
    LET gens == gens_of(t_x, order_x)
        rev_order == [lpe \in 0 .. le.NUM - 1 |-> le.NUM - 1 - order_x[lpe]]
    IN  IF \E p \in 0 .. le.NUM - 1 : gens[p].none
        THEN [exc |-> "TypeError", yields |-> <<>>]
        ELSE LET n == <<gens[0].n, gens[1].n, gens[2].n>>
             IN  [exc |-> "",
                  yields |-> [k \in 1 .. n[1] * n[2] * n[3] |->
                                LET idx == product_at(n, k - 1)
                                IN  <<idx[rev_order[0] + 1], idx[rev_order[1] + 1],
                                      idx[rev_order[2] + 1]>>]]

\* t_x and cnt_x of the three blocking levels of gen_index (lines 283-316).
gen_t_x(s, lvl) ==
    [lpe \in 0 .. le.NUM - 1 |->
        CASE lpe = le.IFM -> s.ti[lvl] [] lpe = le.OFM -> s.to[lvl] [] lpe = le.BAT -> s.tb[lvl]]

\* Faulty variant of gen_cnt_x: the slices start at the level itself.
gen_cnt_x_OwnLevel(s, lvl) ==
    IF lvl = 2 THEN <<1, 1, 1>>
    ELSE << prod_slice(s.ti, lvl, len(s.ti)),
            prod_slice(s.to, lvl, len(s.to)),
            prod_slice(s.tb, lvl, len(s.tb)) >>

gen_cnt_x(s, lvl) ==
    IF lvl = 2 THEN <<1, 1, 1>>
    ELSE << prod_slice(s.ti, lvl + 1, len(s.ti)),
            prod_slice(s.to, lvl + 1, len(s.to)),
            prod_slice(s.tb, lvl + 1, len(s.tb)) >>

gen_order_x(s, lvl) ==
    IF lvl = 2 THEN [lpe \in 0 .. le.NUM - 1 |-> lpe] ELSE s.orders[lvl]

\* The outcome of exhausting gen_index(): the yields, each the tuple
\* (ifm, ofm, bat) index, and how it ended.
gen_index(s) ==
    LET g0 == _gen_index_single_level(gen_t_x(s, 0), gen_order_x(s, 0))
        g1 == _gen_index_single_level(gen_t_x(s, 1), gen_order_x(s, 1))
        g2 == _gen_index_single_level(gen_t_x(s, 2), gen_order_x(s, 2))
    IN  IF g0.exc # "" \/ g1.exc # "" \/ g2.exc # ""
        THEN [exc |-> "TypeError", yields |-> <<>>]
        ELSE LET p0 == pool(g0.yields)
                 p1 == pool(g1.yields)
                 p2 == pool(g2.yields)
                 n == <<Len(p0), Len(p1), Len(p2)>>
                 c0 == gen_cnt_x(s, 0)
                 c1 == gen_cnt_x(s, 1)
                 c2 == gen_cnt_x(s, 2)
                 num == n[1] * n[2] * n[3]
                 merged(k) ==
                     LET at == product_at(n, k)
                         i0 == p0[at[1] + 1]
                         i1 == p1[at[2] + 1]
                         i2 == p2[at[3] + 1]
                     IN  << i0[1] * c0[1] + i1[1] * c1[1] + i2[1] * c2[1],
                            i0[2] * c0[2] + i1[2] * c1[2] + i2[2] * c2[2],
                            i0[3] * c0[3] + i1[3] * c1[3] + i2[3] * c2[3] >>
             IN  [exc |-> IF num = s.tip * s.top * s.tbp THEN "" ELSE "AssertionError",
                  yields |-> pool([k \in 1 .. num |-> merged(k - 1)])]

GenIndex ==
    /\ pc = "ready"
    /\ LET g == gen_index(self)
       IN  ret' = [op |-> "gen_index", arg |-> None,
                   kind |-> IF g.exc = "" THEN "return" ELSE "raise",
                   val |-> g]
    /\ UNCHANGED <<pc, self, desc, resource, options, calc_count>>

(***************************************************************************)
(* Specifications.                                                         *)
(***************************************************************************)
Init ==
    /\ pc = "new"
    /\ self = NoObject
    /\ desc = None
    /\ resource = None
    /\ options = None
    /\ ret = NoCall
    /\ calc_count = 0

\* The blocking factors of a call: well-formed ones of at most `iters`
\* iterations in total, and the ones where one loop's tuple has a wrong length.
TilingArgs(iters) ==
    { t \in Tilings \X Tilings \X Tilings :
        prod(tuple(t[1])) * prod(tuple(t[2])) * prod(tuple(t[3])) <= iters }
    \cup { <<b, <<1, 1, 1>>, <<1, 1, 1>>>> : b \in BadTilings }
    \cup { <<<<1, 1, 1>>, b, <<1, 1, 1>>>> : b \in BadTilings }
    \cup { <<<<1, 1, 1>>, <<1, 1, 1>>, b>> : b \in BadTilings }

\* A call of the constructor with blocking factors from `tilings`, a pair of
\* orders from `ords`, a resource from `ress` and options from `optss`.
New(tilings, ords, ress, optss) ==
    /\ pc = "new"
    /\ \E t \in tilings, o \in ords, nld \in NestedLoopDescs, res \in ress, opts \in optss :
           CtorBegin(t[1], t[2], t[3], OrdersArg(o[1], o[2]), nld, res, opts)

Ctor ==
    \/ CtorCheck
    \/ CtorFetch
    \/ CtorBypass
    \/ CtorRecheck

Query ==
    \/ \E part_occ \in PartOccs : SetPartitionOccupation(part_occ)
    \/ GetAccess
    \/ GetTopLevelFetch
    \/ \E cost \in Costs : GetCost(cost)
    \/ GetSchemeDict

\* The life cycle of one object: construction, then any sequence of queries.
Next ==
    \/ New(TilingArgs(MaxIters), OrderPairs \cup BadOrderPairs, Resources, Options)
    \/ Ctor
    \/ Query

Spec == Init /\ [][Next]_vars

\* Construction, then the index generator, over more blocking factors.
NextGen ==
    \/ New(TilingArgs(GenMaxIters), OrderPairs \cup BadOrderPairs, GenResources, GenOptions)
    \/ Ctor
    \/ GenIndex

SpecGen == Init /\ [][NextGen]_vars

(***************************************************************************)
(* Properties.                                                             *)
(***************************************************************************)
Constructed == pc = "ready"
Valid == pc = "ready" /\ self.valid
Invalid == pc = "ready" /\ ~self.valid

\* The bypass-eligible categories that the constructor made resident.
Flipped == { dce \in 0 .. de.NUM - 1 : options.sw_gbuf_bypass[dce] /\ self.stored_in_gbuf[dce] }

StatsOps == { "get_access", "get_top_level_fetch", "get_cost", "get_scheme_dict" }

\* C1: in every record that the constructor left valid, the data of all
\* categories fit the register file and, with the final stored_in_gbuf flags,
\* the global buffer; no later query changes that.
C1_ValidFitsBuffers ==
    Valid => /\ data_size(self, BL.REGF) <= resource.size_regf
             /\ data_size(self, BL.GBUF) <= resource.size_gbuf

\* C1 witness: a valid record with a category flipped to resident, occupying
\* the global buffer, after a query has finalized its stats.
C1_Witness ==
    /\ Valid
    /\ Flipped # {}
    /\ data_size(self, BL.GBUF) > 0
    /\ self.finalized_stats
    /\ ret.op = "get_cost"

\* C2, state part: on an invalid record no call has failed, get_cost returned
\* +inf, and get_access, get_top_level_fetch, get_scheme_dict and
\* set_partition_occupation returned None.
C2_InvalidReturns ==
    Invalid =>
        /\ ret.kind = "return"
        /\ ret.op = "get_cost" => ret.val = inf
        /\ ret.op \in (StatsOps \ { "get_cost" }) \cup { "set_partition_occupation" }
             => ret.val = None

\* C2, step part: a failed capacity check (the first or the recheck) ends the
\* constructor normally with valid = False, and no call on an invalid record
\* changes the record.
C2_InvalidSteps ==
    /\ (pc \in { "ctor_check", "ctor_recheck" } /\ ~SizeOK(self, resource))
         => (pc' = "ready" /\ ~self'.valid /\ ret' = Returned("__init__", None, None))
    /\ Invalid => (pc' = "ready" /\ self' = self)

\* C2: capacity infeasibility is never an error, and an invalid record answers
\* every query with its sentinel and is left unchanged.
C2_InvalidDegradesGracefully == [] C2_InvalidReturns /\ [][C2_InvalidSteps]_vars

\* C2 witness: a record that the recheck made invalid (its fetch table was
\* computed) has answered get_cost with +inf.
C2_Witness ==
    /\ Invalid
    /\ "fetch" \in DOMAIN self
    /\ ret.op = "get_cost"
    /\ ret.val = inf

\* Malformed constructor arguments: a wrong length, too small a product, or an
\* order that is no permutation of (0, 1, 2).
IsPermutation(o) == len(o) = le.NUM /\ { o[i] : i \in DOMAIN o } = 0 .. le.NUM - 1

\* C3: a constructor call with malformed arguments (a tuple of blocking
\* factors whose length is not 3, a product of factors below the required
\* loop count, or an order for GBUF or REGF that is no permutation) raises and
\* yields no record: every record that exists has well-formed arguments.
C3_MalformedRaises ==
    pc \notin { "new", "raised" } =>
        /\ ArgsOK(self, desc)
        /\ \A bl \in 0 .. BL.NUM - 1 : IsPermutation(self.orders[bl])

\* C7, state part: _calc_stats has run at most once, and exactly once when the
\* stats are finalized.
C7_CalcOnce ==
    /\ calc_count <= 1
    /\ Valid => (self.finalized_stats <=> calc_count = 1)

\* C7, step part: a stats-reading call on a valid record finalizes the stats;
\* once finalized, ops, time and access never change and _calc_stats does not
\* run again; and a call repeated with the same argument returns the same
\* value, also when the first of the two was the call that computed the stats.
C7_Steps ==
    /\ (Valid /\ ret' # ret /\ ret'.op \in StatsOps) => self'.finalized_stats
    /\ (Valid /\ self.finalized_stats)
         => /\ self'.finalized_stats
            /\ self'.ops = self.ops
            /\ self'.time = self.time
            /\ self'.access = self.access
            /\ calc_count' = calc_count
    /\ (Valid /\ ret.op \in StatsOps /\ ret'.op = ret.op /\ ret'.arg = ret.arg)
         => ret'.val = ret.val

\* C7: the statistics are computed on the first stats-reading call and never
\* again, and repeated calls return identical results.
C7_MemoizedOnce == [] C7_CalcOnce /\ [][C7_Steps]_vars

\* C7 witness: get_scheme_dict answers from stats that an earlier call of
\* another operation computed.
C7_Witness ==
    /\ Valid
    /\ calc_count = 1
    /\ ret.op = "get_scheme_dict"
    /\ ret.val.ops = self.ops
    /\ self.part_occ # float(OccDen)

\* C8, state part: the finalized stats are those of the occupation that the
\* record holds, which is the one in force at the first stats-reading call.
C8_StatsOfOccupation ==
    (Valid /\ self.finalized_stats) =>
        LET lcnt == self.tip * self.top * self.tbp
        IN  /\ self.ops = float(self.unit_ops * lcnt * self.part_occ.num)
            /\ \A dce \in 0 .. de.NUM - 1 :
                 self.access[me.REGF][dce]
                   = float(self.unit_access[me.REGF][dce] * lcnt
                           * (IF dce = de.OFM THEN 2 ELSE 1) * self.part_occ.num)

\* C8, step part: before the stats are finalized set_partition_occupation
\* sets part_occ; afterwards it raises AssertionError and changes nothing.
C8_Steps ==
    /\ (Valid /\ ~self.finalized_stats /\ ret'.op = "set_partition_occupation")
         => (ret'.kind = "return" /\ self'.part_occ = ret'.arg)
    /\ (Valid /\ self.finalized_stats /\ ret'.op = "set_partition_occupation")
         => (ret'.kind = "raise" /\ ret'.val.exc = "AssertionError" /\ self' = self)
    /\ (Valid /\ self.finalized_stats) => self'.part_occ = self.part_occ

\* C8: set_partition_occupation takes effect only before the stats are
\* finalized; afterwards it is rejected and the cached stats keep reflecting the
\* occupation of the first stats-reading call.
C8_OccupationBeforeStats == [] C8_StatsOfOccupation /\ [][C8_Steps]_vars

\* C8 witness: set_partition_occupation was rejected on a record whose stats
\* were finalized under an occupation below 1.
C8_Witness ==
    /\ Valid
    /\ self.finalized_stats
    /\ self.part_occ # float(OccDen)
    /\ ret.op = "set_partition_occupation"
    /\ ret.kind = "raise"
    /\ ret.arg # self.part_occ

\* C9, state part: when the constructor has set stored_in_gbuf (before the
\* first capacity check) it is `not sw_gbuf_bypass`; a record that failed the
\* first check keeps that value; and once the bypass decisions are made, a
\* category is resident exactly if it may not bypass or fetches strictly fewer
\* times at the GBUF level than at the REGF level.
C9_StoredInGbuf ==
    /\ (pc = "ctor_check" \/ (pc = "ready" /\ "fetch" \notin DOMAIN self))
         => \A dce \in 0 .. de.NUM - 1 :
              self.stored_in_gbuf[dce] = ~options.sw_gbuf_bypass[dce]
    /\ (pc = "ctor_recheck" \/ (pc = "ready" /\ "fetch" \in DOMAIN self))
         => \A dce \in 0 .. de.NUM - 1 :
              self.stored_in_gbuf[dce]
                = (\/ ~options.sw_gbuf_bypass[dce]
                   \/ self.fetch[BL.GBUF][dce] < self.fetch[BL.REGF][dce])

\* C9, step part: stored_in_gbuf never goes from True to False, and goes from
\* False to True only in the constructor's bypass step, which runs after the
\* first capacity check passed, and only for a bypass-eligible category with
\* fewer fetches at the GBUF level than at the REGF level.
C9_Steps ==
    (pc \notin { "new", "raised" } /\ pc' \notin { "new", "raised" }) =>
        \A dce \in 0 .. de.NUM - 1 :
            /\ self.stored_in_gbuf[dce] => self'.stored_in_gbuf[dce]
            /\ (~self.stored_in_gbuf[dce] /\ self'.stored_in_gbuf[dce])
                 => /\ pc = "ctor_bypass"
                    /\ self.valid
                    /\ options.sw_gbuf_bypass[dce]
                    /\ self.fetch[BL.GBUF][dce] < self.fetch[BL.REGF][dce]

\* C9: stored_in_gbuf starts as `not sw_gbuf_bypass`, is monotonic, and is
\* flipped only by the constructor, exactly for the bypass-eligible categories
\* that have reuse in the global buffer.
C9_ResidencyMonotonic == [] C9_StoredInGbuf /\ [][C9_Steps]_vars

\* C9 witness: of two bypass-eligible categories the constructor made one
\* resident and left the other bypassed, and queries have run since.
C9_Witness ==
    /\ Constructed
    /\ Flipped # {}
    /\ \E dce \in 0 .. de.NUM - 1 : options.sw_gbuf_bypass[dce] /\ ~self.stored_in_gbuf[dce]
    /\ ret.op = "get_access"

(***************************************************************************)
(* The index generator and the fetch table.                                *)
(***************************************************************************)
\* The last call exhausted gen_index() on the constructed record.
Generated == pc = "ready" /\ ret.op = "gen_index"

\* The blocking factors of a loop, and the loops of a data category.
factors_of(s, lpe) ==
    CASE lpe = le.IFM -> s.ti [] lpe = le.OFM -> s.to [] lpe = le.BAT -> s.tb

RelevantLoops(dce) ==
    CASE dce = de.FIL -> <<le.IFM, le.OFM>>
      [] dce = de.IFM -> <<le.IFM, le.BAT>>
      [] dce = de.OFM -> <<le.OFM, le.BAT>>

UnrelatedLoop(dce) ==
    CASE dce = de.FIL -> le.BAT [] dce = de.IFM -> le.OFM [] dce = de.OFM -> le.IFM

\* C4: on a record with is_valid() = false, gen_index() yields nothing.
C4_InvalidYieldsNothing ==
    (Invalid /\ Generated) => Len(ret.val.yields) = 0

\* The full index range of the record.
IndexRange(s) == (0 .. s.tip - 1) \X (0 .. s.top - 1) \X (0 .. s.tbp - 1)

\* C5, state part: on every record whose orders are permutations, gen_index()
\* ends normally after tip * top * tbp yields, and the yields are exactly the
\* triples of the full range (so that no triple is yielded twice).
C5_YieldsRange ==
    (Generated /\ \A bl \in 0 .. BL.NUM - 1 : IsPermutation(self.orders[bl])) =>
        /\ ret.kind = "return"
        /\ Len(ret.val.yields) = self.tip * self.top * self.tbp
        /\ { ret.val.yields[k] : k \in 1 .. Len(ret.val.yields) } = IndexRange(self)

\* C5, step part: a further gen_index() call on the record, whatever ran in
\* between, gives the same sequence, and no call changes the blocking factors
\* or the orders it reads.
C5_Steps ==
    (pc = "ready" /\ pc' = "ready") =>
        /\ self'.ti = self.ti /\ self'.to = self.to /\ self'.tb = self.tb
        /\ self'.orders = self.orders
        /\ (ret.op = "gen_index" /\ ret'.op = "gen_index") => ret'.val = ret.val

\* C5: gen_index() yields each index triple of the full range exactly once,
\* tip * top * tbp triples in all, and again the same on a fresh call.
C5_IndexBijection == [] C5_YieldsRange /\ [][C5_Steps]_vars

\* C5 witness: a generated sequence over three non-trivial loops, with
\* different orders at the two levels.
C5_Witness ==
    /\ Generated
    /\ self.tip > 1 /\ self.top > 1 /\ self.tbp > 1
    /\ self.orders[BL.GBUF] # self.orders[BL.REGF]
    /\ Len(ret.val.yields) = GenMaxIters \div 2

\* The level-L block of a category at a yielded triple: the two relevant loop
\* indices, each divided by the product of the loop's factors inside L.
BlockOf(s, bl, dce, idx) ==
    LET r == RelevantLoops(dce)
        inside(lpe) == prod_slice(factors_of(s, lpe), bl + 1, BL.NUM + 1)
    IN  << idx[r[1] + 1] \div inside(r[1]), idx[r[2] + 1] \div inside(r[2]) >>

\* K: the positions whose block differs from the preceding position's.
BlockChanges(s, bl, dce, yields) ==
    Cardinality({ k \in 1 .. Len(yields) :
                    \/ k = 1
                    \/ BlockOf(s, bl, dce, yields[k]) # BlockOf(s, bl, dce, yields[k - 1]) })

\* B: the distinct blocks.
BlockCount(s, bl, dce, yields) ==
    Cardinality({ BlockOf(s, bl, dce, yields[k]) : k \in 1 .. Len(yields) })

\* C6: on a valid record the fetch table is the traffic of the sequence that
\* gen_index() yields: K = fetch * B for the filters and the input feature
\* maps, 2 * K - B = fetch * B for the output feature maps.
C6_FetchMatchesTraffic ==
    (Valid /\ Generated) =>
        \A bl \in 0 .. BL.NUM - 1 : \A dce \in 0 .. de.NUM - 1 :
            LET K == BlockChanges(self, bl, dce, ret.val.yields)
                B == BlockCount(self, bl, dce, ret.val.yields)
            IN  IF dce = de.OFM
                THEN 2 * K - B = self.fetch[bl][dce] * B
                ELSE K = self.fetch[bl][dce] * B

\* C6 witness: a generated valid record where some category is fetched more
\* than once at the GBUF level and still more often at the REGF level, and
\* the output feature maps are fetched more than once.
C6_Witness ==
    /\ Valid /\ Generated
    /\ ret.kind = "return"
    /\ \E dce \in 0 .. de.NUM - 1 :
          /\ self.fetch[BL.GBUF][dce] > 1
          /\ self.fetch[BL.REGF][dce] > self.fetch[BL.GBUF][dce]
    /\ self.fetch[BL.REGF][de.OFM] > 1

\* Whether loop lpe is the innermost non-trivial loop at level bl: its factor
\* there is above 1 and no other loop with a factor above 1 has a smaller
\* order value, nor the same order value and a smaller loop enum.
IsInnermostNontrivial(s, bl, lpe) ==
    /\ factors_of(s, lpe)[bl] > 1
    /\ \A o \in (0 .. le.NUM - 1) \ { lpe } :
          factors_of(s, o)[bl] > 1 =>
              \/ s.orders[bl][lpe] < s.orders[bl][o]
              \/ s.orders[bl][lpe] = s.orders[bl][o] /\ lpe < o

\* The fetch count of a category at a level from P, the product of the
\* unrelated loop's factors down to level `upto` (exclusive).
FetchFromProduct(s, dce, upto) ==
    LET P == prod_slice(factors_of(s, UnrelatedLoop(dce)), 0, upto)
    IN  IF dce = de.OFM THEN 2 * P - 1 ELSE P

\* The category's two relevant factors at the level are not both 1.
ChangesData(s, bl, dce) ==
    LET r == RelevantLoops(dce)
    IN  factors_of(s, r[1])[bl] * factors_of(s, r[2])[bl] # 1

\* C10 as stated: P includes the level's own factor exactly if the unrelated
\* loop is the innermost non-trivial loop at the level.
C10_IncludesIffInnermost ==
    (pc = "ready" /\ "fetch" \in DOMAIN self) =>
        \A bl \in 0 .. BL.NUM - 1 : \A dce \in 0 .. de.NUM - 1 :
            ChangesData(self, bl, dce) =>
                self.fetch[bl][dce]
                  = FetchFromProduct(self, dce,
                        IF IsInnermostNontrivial(self, bl, UnrelatedLoop(dce))
                        THEN bl + 1 ELSE bl)

\* C10 amended: P stops one level short, excluding the level's own factor,
\* exactly if the unrelated loop is the innermost non-trivial loop at the
\* level; otherwise P includes the level's own factor.
C10_ExcludesIffInnermost ==
    (pc = "ready" /\ "fetch" \in DOMAIN self) =>
        \A bl \in 0 .. BL.NUM - 1 : \A dce \in 0 .. de.NUM - 1 :
            ChangesData(self, bl, dce) =>
                self.fetch[bl][dce]
                  = FetchFromProduct(self, dce,
                        IF IsInnermostNontrivial(self, bl, UnrelatedLoop(dce))
                        THEN bl ELSE bl + 1)

\* C10 witness: a record where, at the REGF level, one category's unrelated
\* loop is the innermost non-trivial one and another's is not, both categories
\* change at that level, and one of the two products has two factors above 1.
C10_Witness ==
    /\ pc = "ready" /\ "fetch" \in DOMAIN self
    /\ \E c1 \in 0 .. de.NUM - 1, c2 \in 0 .. de.NUM - 1 :
          /\ ChangesData(self, BL.REGF, c1) /\ ChangesData(self, BL.REGF, c2)
          /\ IsInnermostNontrivial(self, BL.REGF, UnrelatedLoop(c1))
          /\ ~IsInnermostNontrivial(self, BL.REGF, UnrelatedLoop(c2))
          /\ self.fetch[BL.REGF][c1] > 1
          /\ self.fetch[BL.REGF][c2] >= 4

\* C11: in every record that passed the first capacity check, no category is
\* fetched more often at the GBUF level than at the REGF level; and in every
\* valid record a category left bypassed (stored_in_gbuf False) is fetched
\* equally often at the two levels.
C11_GbufFetchAtMostRegf ==
    /\ (pc \notin { "new", "raised" } /\ "fetch" \in DOMAIN self)
         => \A dce \in 0 .. de.NUM - 1 :
              self.fetch[BL.GBUF][dce] <= self.fetch[BL.REGF][dce]
    /\ Valid
         => \A dce \in 0 .. de.NUM - 1 :
              ~self.stored_in_gbuf[dce]
                => self.fetch[BL.GBUF][dce] = self.fetch[BL.REGF][dce]

\* C11 witness: a valid record with one category left bypassed that is fetched
\* more than once at both levels, and another made resident because it is
\* fetched more often at the REGF level, after gen_index() has run.
C11_Witness ==
    /\ Valid /\ Generated
    /\ ret.kind = "return"
    /\ \E c1 \in 0 .. de.NUM - 1, c2 \in 0 .. de.NUM - 1 :
          /\ ~self.stored_in_gbuf[c1]
          /\ self.fetch[BL.GBUF][c1] > 1
          /\ self.fetch[BL.REGF][c1] = self.fetch[BL.GBUF][c1]
          /\ self.stored_in_gbuf[c2]
          /\ self.fetch[BL.GBUF][c2] < self.fetch[BL.REGF][c2]

====
